---- MODULE Spec2Model ----
(***************************************************************************)
(* Model of scripts/create-secrets.ts of PantryManagerAppCdk: the          *)
(* interactive script that provisions the secrets of the Amplify stack in  *)
(* AWS Secrets Manager.  One process invocation (main, SecretCreator.run)  *)
(* is a run; the secret stores (one per AWS region) outlive the runs.      *)
(* Every await of the script (a readline question, a client.send) is a     *)
(* point where the process waits; the action that follows models the       *)
(* answer and all the synchronous code up to the next await.               *)
(***************************************************************************)
EXTENDS Integers, Sequences, FiniteSets, TLC

\* Number of descriptors of the catalog that are modelled (a prefix of the
\* eight entries of SECRETS).
CatalogLen == 2

\* ---------------------------------------------------------------------------
\* Strings are sequences of one-character strings, so that trim() and
\* toLowerCase() are computed rather than assumed.

WhiteSpace == {" ", "\t"}

RECURSIVE trimStart(_)
trimStart(s) ==
    IF s = <<>> THEN s
    ELSE IF Head(s) \in WhiteSpace THEN trimStart(Tail(s)) ELSE s

RECURSIVE trimEnd(_)
trimEnd(s) ==
    IF s = <<>> THEN s
    ELSE IF s[Len(s)] \in WhiteSpace THEN trimEnd(SubSeq(s, 1, Len(s) - 1)) ELSE s

\* String.prototype.trim as used by question()
trim(s) == trimEnd(trimStart(s))

toLowerChar(c) ==
    CASE c = "Y" -> "y"
      [] c = "E" -> "e"
      [] c = "S" -> "s"
      [] c = "N" -> "n"
      [] c = "O" -> "o"
      [] OTHER -> c

\* String.prototype.toLowerCase as used on the confirmation answer
toLowerCase(s) == [i \in 1..Len(s) |-> toLowerChar(s[i])]

\* Mutant of question: the answer is resolved as typed, without trim()
questionUntrimmed(answer) == answer

\* question(query): resolves with the trimmed line the operator typed
question(answer) == trim(answer)

\* Mutant of Affirmative: the gate tests only the first letter
AffirmativePrefix(p) ==
    toLowerCase(p) # <<>> /\ toLowerCase(p)[1] = "y"

\* The gate of run(): proceed.toLowerCase() is 'yes' or 'y'
Affirmative(p) ==
    ~(toLowerCase(p) # <<"y", "e", "s">> /\ toLowerCase(p) # <<"y">>)

\* Lines the operator may type at the confirmation question
ConfirmAnswers ==
    { <<"y">>,
      <<" ", "Y", "E", "S", "\t">>,
      <<"y", "e">>,
      <<"y", "e", "s", " ", "y">>,
      <<"n", "o">>,
      <<"N">>,
      <<" ">>,
      <<>> }

\* Lines the operator may type at a value prompt
ValueAnswers ==
    { <<>>, <<" ", "\t">>, <<" ", "v", " ">> }

\* ---------------------------------------------------------------------------
\* The catalog

SecretNames ==
    << "github-token", "pantry-github-id", "pantry-github-secret",
       "pantry-nextauth-secret", "pantry-db-url", "pantry-direct-db-url",
       "pantry-fdc-api-key", "pantry-gemini-api-key" >>

SecretDescriptions ==
    << "GitHub personal access token for Amplify to access your repository",
       "GitHub OAuth App Client ID for authentication",
       "GitHub OAuth App Client Secret for authentication",
       "NextAuth.js secret for session encryption",
       "Database connection URL (Prisma format)",
       "Direct database connection URL (for migrations)",
       "FoodData Central API key",
       "Google Gemini API key" >>

\* the keys of generateConstantsUpdate, which are also the envVarNames
secretKeys ==
    << "GITHUB_TOKEN", "GITHUB_ID", "GITHUB_SECRET", "NEXTAUTH_SECRET",
       "DATABASE_URL", "DIRECT_URL", "FDC_API_KEY", "GEMINI_API_KEY" >>

\* interface SecretConfig; `required` is a boolean field that run() branches
\* on, so the catalogs range over both of its values (the shipped table sets
\* it to true in every entry).
SecretConfig(i, req) ==
    [ name |-> SecretNames[i],
      description |-> SecretDescriptions[i],
      envVarName |-> secretKeys[i],
      required |-> req ]

Catalogs ==
    { [i \in 1..CatalogLen |-> SecretConfig(i, f[i])] :
          f \in [1..CatalogLen -> BOOLEAN] }

Names == { SecretNames[i] : i \in 1..CatalogLen }

\* ---------------------------------------------------------------------------
\* Command line and regions

DEFAULT_REGION == "us-east-1"

\* CONFIG.REGION of lib/constants.ts, the region the stack is deployed to
CONFIG_REGION == "us-east-2"

Regions == {DEFAULT_REGION, CONFIG_REGION}

\* process.argv.slice(2)
ArgvSet ==
    { <<>>,
      <<"--region">>,
      <<"--region", "us-east-2">>,
      <<"--help">>,
      <<"--region", "us-east-2", "-h">> }

\* Array.prototype.indexOf, 0-based, -1 when absent
indexOf(a, x) ==
    IF \E i \in 1..Len(a) : a[i] = x
    THEN (CHOOSE i \in 1..Len(a) : a[i] = x /\ \A j \in 1..(i - 1) : a[j] # x) - 1
    ELSE -1

includes(a, x) == \E i \in 1..Len(a) : a[i] = x

\* main: the region expression; args[regionIndex + 1] is undefined (falsy)
\* past the end of the array.
ParseRegion(args) ==
    LET regionIndex == indexOf(args, "--region") IN
    IF regionIndex # -1 /\ regionIndex + 2 <= Len(args) /\ args[regionIndex + 2] # ""
    THEN args[regionIndex + 2]
    ELSE DEFAULT_REGION

HelpRequested(args) == includes(args, "--help") \/ includes(args, "-h")

\* ---------------------------------------------------------------------------
\* The secret store (AWS Secrets Manager), one per region

Absent == [present |-> FALSE, value |-> <<>>, description |-> ""]

Stored(v, d) == [present |-> TRUE, value |-> v, description |-> d]

\* ARN returned by CreateSecret
Arn(r, n) == <<"arn:aws:secretsmanager", r, n>>

\* Errors a store call may throw besides the two the store decides itself
StoreErrors ==
    { [name |-> "AccessDeniedException", credentials |-> FALSE],
      [name |-> "CredentialsProviderError", credentials |-> TRUE] }

NotFound == [name |-> "ResourceNotFoundException", credentials |-> FALSE]

AlreadyExists == [name |-> "ResourceExistsException", credentials |-> FALSE]

\* ---------------------------------------------------------------------------
VARIABLES
    SECRETS,         \* the catalog
    store,           \* store[r][n]: the secret named n in region r
    pc,              \* "idle", or where the process waits, or how it ended
    args,            \* process.argv.slice(2) of the current run
    region,          \* this.region
    typed,           \* the line typed at the confirmation question
    proceed,         \* the trimmed answer to the confirmation question
    idx,             \* position of `secret` in the for-of loop
    value,           \* the trimmed answer to the value prompt
    createdSecrets,
    skippedSecrets,
    failedSecrets,
    calls,           \* store and prompt calls issued by the current run
    out,             \* console output of the current run
    exitCode,        \* -1 while the process runs
    storeAtStart     \* store[region] when the current run started

vars == << SECRETS, store, pc, args, region, typed, proceed, idx, value,
           createdSecrets, skippedSecrets, failedSecrets, calls, out,
           exitCode, storeAtStart >>

Terminal == {"help", "aborted", "done", "fatal"}

\* A call as issued; `result` is "pending" until the answer arrives, then
\* "ok", the name of the error thrown, or "answered" for a prompt; `answer`
\* keeps what came back: the typed line of a prompt, the ARN of a create.
Call(op, n, v, d) ==
    [op |-> op, name |-> n, region |-> region, value |-> v, description |-> d,
     result |-> "pending", answer |-> <<>>]

\* The calls with the answer of the pending (last) call filled in
Answered(res, ans) ==
    [calls EXCEPT ![Len(calls)].result = res, ![Len(calls)].answer = ans]

ResultOf(resp) == IF resp.ok THEN "ok" ELSE resp.error.name

ExistsCall(i) == Call("exists", SECRETS[i].name, <<>>, "")

PromptCall(i) == Call("prompt", SECRETS[i].name, <<>>, "")

CreateCall(i, v) == Call("create", SECRETS[i].name, v, SECRETS[i].description)

Init ==
    /\ SECRETS \in Catalogs
    /\ store = [r \in Regions |-> [n \in Names |-> Absent]]
    /\ pc = "idle"
    /\ args = <<>>
    /\ region = DEFAULT_REGION
    /\ typed = <<>>
    /\ proceed = <<>>
    /\ idx = 0
    /\ value = <<>>
    /\ createdSecrets = <<>>
    /\ skippedSecrets = <<>>
    /\ failedSecrets = <<>>
    /\ calls = <<>>
    /\ out = <<>>
    /\ exitCode = -1
    /\ storeAtStart = [n \in Names |-> Absent]


\* ---------------------------------------------------------------------------
\* Console output: one record per message that matters to the operator

Line(tag, arg) == [tag |-> tag, arg |-> arg]

\* Mutant of arnMapGet: the Map is keyed by the secret's name, the lookup by
\* the constants key finds nothing
arnMapGetByName(created, key) ==
    LET hits == { i \in 1..Len(created) : created[i].name = key } IN
    IF hits = {} THEN <<>>
    ELSE created[CHOOSE i \in hits : \A j \in hits : j <= i].arn

\* arnMap.get(key) of generateConstantsUpdate: the Map keeps the last entry
\* of a key; <<>> stands for undefined
arnMapGet(created, key) ==
    LET hits == { i \in 1..Len(created) : created[i].envVarName = key } IN
    IF hits = {} THEN <<>>
    ELSE created[CHOOSE i \in hits : \A j \in hits : j <= i].arn

\* generateConstantsUpdate: the key/ARN pairs printed, in secretKeys order
generateConstantsUpdate(created) ==
    LET F[k \in 0..Len(secretKeys)] ==
            IF k = 0 THEN <<>>
            ELSE IF arnMapGet(created, secretKeys[k]) # <<>>
                 THEN Append(F[k - 1],
                             <<secretKeys[k], arnMapGet(created, secretKeys[k])>>)
                 ELSE F[k - 1]
    IN Line("SECRET_ARNS", F[Len(secretKeys)])

\* "All secrets are ready" test of the NEXT STEPS block
AllReady(c, s, f) ==
    Len(f) = 0 /\ (Len(c) > 0 \/ Len(s) = Len(SECRETS))

\* run(): everything printed after the loop
Summary(c, s, f) ==
    <<Line("SUMMARY", <<Len(c), Len(s), Len(f)>>)>>
    \o (IF Len(c) > 0 THEN <<generateConstantsUpdate(c)>> ELSE <<>>)
    \o (IF Len(s) > 0 THEN <<Line("SkippedSecrets", s)>> ELSE <<>>)
    \o (IF Len(f) > 0
        THEN <<Line("FailedSecrets", f), Line("RunAgain", <<>>)>>
        ELSE <<>>)
    \o (IF Len(c) > 0 THEN <<Line("UpdateConstants", <<>>)>> ELSE <<>>)
    \o (IF AllReady(c, s, f)
        THEN <<Line("AllReady", <<>>)>>
        ELSE <<Line("CreateMissing", <<>>)>>)
    \o <<Line("Done", <<>>)>>

\* ---------------------------------------------------------------------------
\* Responses of the store

NoError == [name |-> "", credentials |-> FALSE]

Ok(arn) == [ok |-> TRUE, error |-> NoError, arn |-> arn]

Err(e) == [ok |-> FALSE, error |-> e, arn |-> <<>>]

\* client.send(new DescribeSecretCommand({SecretId})) in region r
DescribeSecret(r, n) ==
    (IF store[r][n].present THEN {Ok(Arn(r, n))} ELSE {Err(NotFound)})
    \cup { Err(e) : e \in StoreErrors }

\* client.send(new CreateSecretCommand(...)) in region r: the service
\* refuses a name that is taken
CreateSecret(r, n) ==
    (IF store[r][n].present THEN {Err(AlreadyExists)} ELSE {Ok(Arn(r, n))})
    \cup { Err(e) : e \in StoreErrors }

\* Mutant of secretExists: the `return true` is lost, a described secret is
\* reported missing
secretExistsNoSkip(resp) ==
    IF resp.ok THEN "false"
    ELSE IF resp.error.name = "ResourceNotFoundException" THEN "false"
    ELSE "throw"

\* Mutant of secretExists: the catch block returns false for every error
secretExistsSwallow(resp) ==
    IF resp.ok THEN "true" ELSE "false"

\* secretExists: "true", "false", or "throw" when the error is rethrown
secretExists(resp) ==
    IF resp.ok THEN "true"
    ELSE IF resp.error.name = "ResourceNotFoundException" THEN "false"
    ELSE "throw"

\* ---------------------------------------------------------------------------
\* The loop of run(): what follows the body of iteration idx, given the three
\* lists, the output and the calls so far.  Either the next iteration starts,
\* up to its await of secretExists, or the summary is printed, run() returns
\* and the process ends with status 0.
Advance(c, s, f, o, cl) ==
    /\ createdSecrets' = c
    /\ skippedSecrets' = s
    /\ failedSecrets' = f
    /\ value' = <<>>
    /\ IF idx < Len(SECRETS)
       THEN /\ idx' = idx + 1
            /\ pc' = "exists"
            /\ out' = Append(o, Line("Secret", <<SECRETS[idx + 1].name>>))
            /\ calls' = Append(cl, ExistsCall(idx + 1))
            /\ exitCode' = exitCode
       ELSE /\ idx' = idx
            /\ pc' = "done"
            /\ out' = o \o Summary(c, s, f)
            /\ calls' = cl
            /\ exitCode' = 0

\* main(): a new invocation of the script, up to the confirmation question
\* of run() (or to process.exit(0) for the help flag)
Main ==
    /\ pc \in {"idle"} \cup Terminal
    /\ \E a \in ArgvSet :
        /\ args' = a
        /\ region' = ParseRegion(a)
        /\ storeAtStart' = store[ParseRegion(a)]
        /\ IF HelpRequested(a)
           THEN /\ out' = <<Line("Usage", <<>>)>>
                /\ pc' = "help"
                /\ exitCode' = 0
           ELSE /\ out' = << Line("UsingRegion", <<ParseRegion(a)>>),
                             Line("Banner", <<ParseRegion(a)>>) >>
                /\ pc' = "confirm"
                /\ exitCode' = -1
    /\ typed' = <<>>
    /\ proceed' = <<>>
    /\ idx' = 0
    /\ value' = <<>>
    /\ createdSecrets' = <<>>
    /\ skippedSecrets' = <<>>
    /\ failedSecrets' = <<>>
    /\ calls' = <<>>
    /\ UNCHANGED <<SECRETS, store>>

\* run(): the answer to 'Do you want to proceed?' arrives
Confirm ==
    /\ pc = "confirm"
    /\ \E answer \in ConfirmAnswers :
        /\ typed' = answer
        /\ proceed' = question(answer)
        /\ IF ~Affirmative(question(answer))
           THEN /\ out' = Append(out, Line("Aborted", <<>>))
                /\ pc' = "aborted"
                /\ exitCode' = 0
                /\ UNCHANGED <<idx, calls>>
           ELSE /\ idx' = 1
                /\ pc' = "exists"
                /\ out' = Append(out, Line("Secret", <<SECRETS[1].name>>))
                /\ calls' = <<ExistsCall(1)>>
                /\ exitCode' = exitCode
    /\ UNCHANGED <<SECRETS, store, args, region, value, createdSecrets,
                   skippedSecrets, failedSecrets, storeAtStart>>

\* Mutant of Fatal: the catch block reports the error and forgets
\* process.exit(1)
FatalExitZero(e, cl) ==
    /\ pc' = "fatal"
    /\ out' = Append(out, Line("FATAL ERROR", <<e.name>>))
    /\ exitCode' = 0
    /\ calls' = cl
    /\ UNCHANGED <<idx, value, createdSecrets, skippedSecrets, failedSecrets>>

\* main(): the catch block around creator.run(), ending in process.exit(1)
Fatal(e, cl) ==
    /\ pc' = "fatal"
    /\ out' = Append(out, Line("FATAL ERROR", <<e.name>>))
              \o (IF e.name = "CredentialsError" \/ e.credentials
                  THEN <<Line("CredentialsHint", <<>>)>>
                  ELSE <<>>)
    /\ exitCode' = 1
    /\ calls' = cl
    /\ UNCHANGED <<idx, value, createdSecrets, skippedSecrets, failedSecrets>>

\* run(): `if (exists)`: the secret is skipped
SkipExisting(cl) ==
    Advance(createdSecrets,
            Append(skippedSecrets, SECRETS[idx].name),
            failedSecrets,
            Append(out, Line("AlreadyExists", <<SECRETS[idx].name>>)),
            cl)

\* run(): secretExists returned false: the value prompt is issued
PromptValue(cl) ==
    /\ pc' = "prompt"
    /\ calls' = Append(cl, PromptCall(idx))
    /\ UNCHANGED <<idx, value, createdSecrets, skippedSecrets, failedSecrets,
                   out, exitCode>>

\* run(): the answer of secretExists(secret.name) arrives
OnSecretExists ==
    /\ pc = "exists"
    /\ \E resp \in DescribeSecret(region, SECRETS[idx].name) :
        LET cl == Answered(ResultOf(resp), <<>>) IN
        CASE secretExists(resp) = "true" -> SkipExisting(cl)
          [] secretExists(resp) = "false" -> PromptValue(cl)
          [] OTHER -> Fatal(resp.error, cl)
    /\ UNCHANGED <<SECRETS, store, args, region, typed, proceed, storeAtStart>>

\* Mutant of EmptyValue: the `required` test is lost, every empty value is a
\* plain skip
EmptyValueNeverFails(cl) ==
    Advance(createdSecrets, skippedSecrets, failedSecrets,
            Append(out, Line("Skipped", <<SECRETS[idx].name>>)),
            cl)

\* Mutant of EmptyValue: the `required` test is lost, every empty value is
\* recorded as failed
EmptyValueAlwaysFails(cl) ==
    Advance(createdSecrets, skippedSecrets,
            Append(failedSecrets, SECRETS[idx].name),
            Append(out, Line("RequiredSkipped", <<SECRETS[idx].name>>)),
            cl)

\* run(): `if (!value)`: nothing was entered
EmptyValue(cl) ==
    IF SECRETS[idx].required
    THEN Advance(createdSecrets, skippedSecrets,
                 Append(failedSecrets, SECRETS[idx].name),
                 Append(out, Line("RequiredSkipped", <<SECRETS[idx].name>>)),
                 cl)
    ELSE Advance(createdSecrets, skippedSecrets, failedSecrets,
                 Append(out, Line("Skipped", <<SECRETS[idx].name>>)),
                 cl)

\* run(): the operator answers 'Enter value for ...'
OnValue ==
    /\ pc = "prompt"
    /\ \E answer \in ValueAnswers :
        LET cl == Answered("answered", answer) IN
        IF question(answer) = <<>>
        THEN EmptyValue(cl)
        ELSE /\ value' = question(answer)
             /\ pc' = "create"
             /\ calls' = Append(cl, CreateCall(idx, question(answer)))
             /\ UNCHANGED <<idx, createdSecrets, skippedSecrets, failedSecrets,
                            out, exitCode>>
    /\ UNCHANGED <<SECRETS, store, args, region, typed, proceed, storeAtStart>>

\* run(): the try block after createSecret returned an ARN
CreateSucceeded(arn, cl) ==
    Advance(Append(createdSecrets,
                   [name |-> SECRETS[idx].name, arn |-> arn,
                    envVarName |-> SECRETS[idx].envVarName]),
            skippedSecrets, failedSecrets,
            Append(out, Line("Created", <<SECRETS[idx].name, arn>>)),
            cl)

\* Mutant of CreateFailed: no try/catch around createSecret, the error leaves
\* run()
CreateFailedRethrown(e, cl) == Fatal(e, cl)

\* Mutant of CreateFailed: the catch block tries the create call once more
\* before it gives up
CreateFailedRetried(e, cl) ==
    IF Cardinality({ k \in 1..Len(cl) : cl[k].op = "create"
                                         /\ cl[k].name = SECRETS[idx].name }) < 2
    THEN /\ pc' = "create"
         /\ calls' = Append(cl, CreateCall(idx, value))
         /\ UNCHANGED <<idx, value, createdSecrets, skippedSecrets,
                        failedSecrets, out, exitCode>>
    ELSE Advance(createdSecrets, skippedSecrets,
                 Append(failedSecrets, SECRETS[idx].name),
                 Append(out, Line("ErrorCreating", <<SECRETS[idx].name, e.name>>)),
                 cl)

\* Mutant of CreateFailed: the catch block records the name and prints
\* nothing
CreateFailedSilent(e, cl) ==
    Advance(createdSecrets, skippedSecrets,
            Append(failedSecrets, SECRETS[idx].name),
            out, cl)

\* Mutant of CreateFailed: the catch block prints the error and records
\* nothing
CreateFailedUnrecorded(e, cl) ==
    Advance(createdSecrets, skippedSecrets, failedSecrets,
            Append(out, Line("ErrorCreating", <<SECRETS[idx].name, e.name>>)),
            cl)

\* run(): the catch block around createSecret
CreateFailed(e, cl) ==
    Advance(createdSecrets, skippedSecrets,
            Append(failedSecrets, SECRETS[idx].name),
            Append(out, Line("ErrorCreating", <<SECRETS[idx].name, e.name>>)),
            cl)

\* run(): createSecret(secret.name, value, secret.description) returns or throws
OnCreateSecret ==
    /\ pc = "create"
    /\ \E resp \in CreateSecret(region, SECRETS[idx].name) :
        LET cl == Answered(ResultOf(resp), resp.arn) IN
        IF resp.ok
        THEN /\ store' = [store EXCEPT ![region][SECRETS[idx].name] =
                              Stored(value, SECRETS[idx].description)]
             /\ CreateSucceeded(resp.arn, cl)
        ELSE /\ store' = store
             /\ CreateFailed(resp.error, cl)
    /\ UNCHANGED <<SECRETS, args, region, typed, proceed, storeAtStart>>

Next == Main \/ Confirm \/ OnSecretExists \/ OnValue \/ OnCreateSecret

Spec == Init /\ [][Next]_vars

\* The operator answers every question and the store answers every call: each
\* continuation of an await that is waited for is eventually run.  Nothing
\* obliges anybody to start the script again.
\* (The process waits at one await at a time, so one condition on the four
\* continuations says as much as one condition for each.)
SpecLive ==
    Spec /\ WF_vars(Confirm \/ OnSecretExists \/ OnValue \/ OnCreateSecret)

\* ---------------------------------------------------------------------------
\* Vocabulary of the properties

SeqSet(s) == { s[i] : i \in 1..Len(s) }

CreatedNames == { createdSecrets[i].name : i \in 1..Len(createdSecrets) }

CatalogNames == [i \in 1..Len(SECRETS) |-> SECRETS[i].name]

Positions == 1..Len(SECRETS)

CallsOfOp(op) == { k \in 1..Len(calls) : calls[k].op = op }

CallsFor(op, i) ==
    { k \in 1..Len(calls) : calls[k].op = op /\ calls[k].name = SECRETS[i].name }

HasLine(tag) == \E k \in 1..Len(out) : out[k].tag = tag

Started == pc # "idle"

AllExistedAtStart == \A n \in Names : storeAtStart[n].present

\* The confirmation lines of ConfirmAnswers that read yes or y once trimmed
\* and lower-cased
GateOpens == { <<"y">>, <<" ", "Y", "E", "S", "\t">> }

\* The value lines of ValueAnswers that are empty once trimmed
BlankAnswers == { <<>>, <<" ", "\t">> }

ExistsSaidPresent(i) == \E k \in CallsFor("exists", i) : calls[k].result = "ok"

ExistsSaidNotFound(i) ==
    \E k \in CallsFor("exists", i) : calls[k].result = "ResourceNotFoundException"

ExistsThrewAt(i) ==
    \E k \in CallsFor("exists", i) :
        calls[k].result \notin {"pending", "ok", "ResourceNotFoundException"}

BlankAt(i) ==
    \E k \in CallsFor("prompt", i) :
        calls[k].result = "answered" /\ calls[k].answer \in BlankAnswers

ValueGivenAt(i) ==
    \E k \in CallsFor("prompt", i) :
        calls[k].result = "answered" /\ calls[k].answer \notin BlankAnswers

CreateFailedAt(i) ==
    \E k \in CallsFor("create", i) : calls[k].result \notin {"pending", "ok"}

CreateSucceededAt(i) == \E k \in CallsFor("create", i) : calls[k].result = "ok"

InNoList(i) ==
    /\ SECRETS[i].name \notin CreatedNames
    /\ SECRETS[i].name \notin SeqSet(skippedSecrets)
    /\ SECRETS[i].name \notin SeqSet(failedSecrets)

\* ---------------------------------------------------------------------------
\* C1. Idempotence: in a run that starts with every descriptor of the catalog
\* already in the store of its region, no create call is ever issued, nothing
\* is recorded as created, the store is not changed, and when the run reaches
\* its summary skippedExisting is the whole catalog in catalog order.
C1_Idempotent ==
    (Started /\ AllExistedAtStart) =>
        /\ CallsOfOp("create") = {}
        /\ createdSecrets = <<>>
        /\ store[region] = storeAtStart
        /\ (pc = "done" => skippedSecrets = CatalogNames)

C1_Witness ==
    /\ pc = "done"
    /\ AllExistedAtStart
    /\ skippedSecrets = CatalogNames
    /\ Len(calls) = CatalogLen

\* C2. Confirmation gate: a store call or value prompt is issued only in a run
\* whose confirmation line, trimmed and lower-cased, is yes or y; any other
\* line ends the run as aborted with no call, no outcome and no summary; a run
\* with the help flag issues no call.
C2_ConfirmationGate ==
    /\ calls # <<>> => typed \in GateOpens
    /\ (pc \notin {"idle", "confirm", "help"} /\ typed \notin GateOpens) =>
          /\ pc = "aborted"
          /\ calls = <<>>
          /\ createdSecrets = <<>> /\ skippedSecrets = <<>> /\ failedSecrets = <<>>
          /\ ~HasLine("SUMMARY") /\ ~HasLine("Done")
          /\ store[region] = storeAtStart
    /\ pc = "help" => (calls = <<>> /\ store[region] = storeAtStart)

C2_Witness ==
    /\ pc = "aborted"
    /\ typed = <<"y", "e", "s", " ", "y">>
    /\ HasLine("Aborted")

\* C3. Partial-failure isolation: when the create call of the descriptor at
\* position i has failed, the descriptor is recorded in failedSecrets and the
\* run goes on: the existence check of position i+1 has been issued (or, for
\* the last position, the summary is reached); every later descriptor whose
\* check said "not found" is prompted for, every one given a value gets its
\* create call, and a run that reaches the summary has checked them all.
C3_PartialFailureIsolation ==
    \A i \in Positions :
        CreateFailedAt(i) =>
            /\ SECRETS[i].name \in SeqSet(failedSecrets)
            /\ i < Len(SECRETS) => CallsFor("exists", i + 1) # {}
            /\ i = Len(SECRETS) => pc = "done"
            /\ \A j \in Positions :
                  j > i =>
                     /\ ExistsSaidNotFound(j) => CallsFor("prompt", j) # {}
                     /\ ValueGivenAt(j) => CallsFor("create", j) # {}
                     /\ pc = "done" => CallsFor("exists", j) # {}

C3_Witness ==
    /\ pc = "done"
    /\ CreateFailedAt(1)
    /\ CreateSucceededAt(2)

\* C4. Re-run: every create call of a run is for a descriptor that was not in
\* the store of the run's region when the run started (so none created there
\* by an earlier run), whose existence check in this run said "not found",
\* and that is still absent while the call is pending.
C4_RerunCreatesOnlyMissing ==
    \A k \in CallsOfOp("create") :
        /\ ~storeAtStart[calls[k].name].present
        /\ \E j \in 1..(k - 1) :
              /\ calls[j].op = "exists"
              /\ calls[j].name = calls[k].name
              /\ calls[j].result = "ResourceNotFoundException"
        /\ calls[k].result = "pending" => ~store[region][calls[k].name].present

C4_Witness ==
    /\ pc = "done"
    /\ \E n, m \in Names :
          /\ storeAtStart[n].present
          /\ n \in SeqSet(skippedSecrets)
          /\ ~storeAtStart[m].present
          /\ m \in CreatedNames

\* The descriptors that are not required and were given no value
OptionalSkipped == { SECRETS[i].name : i \in { j \in Positions : ~SECRETS[j].required /\ BlankAt(j) } }

PairwiseDisjoint ==
    /\ CreatedNames \cap SeqSet(skippedSecrets) = {}
    /\ CreatedNames \cap SeqSet(failedSecrets) = {}
    /\ SeqSet(skippedSecrets) \cap SeqSet(failedSecrets) = {}

C6_RequiredEmptyIsFailed ==
    \A i \in Positions :
        (SECRETS[i].required /\ BlankAt(i)) =>
            /\ SECRETS[i].name \in SeqSet(failedSecrets)
            /\ SECRETS[i].name \notin CreatedNames
            /\ SECRETS[i].name \notin SeqSet(skippedSecrets)
            /\ CallsFor("create", i) = {}
            /\ ~store[region][SECRETS[i].name].present

C6_Witness ==
    /\ pc = "done"
    /\ SECRETS[1].required /\ BlankAt(1)
    /\ SECRETS[2].required /\ CreateSucceededAt(2)

\* C7. A descriptor that is not required, is not in the store and is given an
\* empty value is in none of the three lists, no create call is issued for
\* it, and the run goes on with the next descriptor (or the summary).
C7_OptionalEmptyIsPlainSkip ==
    \A i \in Positions :
        (~SECRETS[i].required /\ BlankAt(i)) =>
            /\ InNoList(i)
            /\ CallsFor("create", i) = {}
            /\ ~store[region][SECRETS[i].name].present
            /\ i < Len(SECRETS) => CallsFor("exists", i + 1) # {}
            /\ i = Len(SECRETS) => pc = "done"

C7_Witness ==
    /\ ~SECRETS[1].required /\ BlankAt(1)
    /\ Len(calls) > 2
    /\ failedSecrets = <<>>

\* C8. An existence check that fails with an error other than "not found" is
\* fatal: the run ends with status 1 and no summary, that check is the last
\* call of the run, the descriptor is in no list and neither it nor a later
\* descriptor is prompted for or created.  A value prompt is issued only
\* after a check that said "not found".
C8_ExistsFailureIsFatal ==
    /\ \A i \in Positions :
          ExistsThrewAt(i) =>
              /\ pc = "fatal"
              /\ exitCode = 1
              /\ calls[Len(calls)].op = "exists"
              /\ calls[Len(calls)].name = SECRETS[i].name
              /\ InNoList(i)
              /\ \A j \in Positions :
                    j >= i => (CallsFor("prompt", j) = {} /\ CallsFor("create", j) = {})
              /\ \A j \in Positions : j > i => CallsFor("exists", j) = {}
              /\ HasLine("FATAL ERROR")
              /\ ~HasLine("SUMMARY") /\ ~HasLine("Done")
    /\ \A k \in CallsOfOp("prompt") :
          \E j \in 1..(k - 1) :
              /\ calls[j].op = "exists"
              /\ calls[j].name = calls[k].name
              /\ calls[j].result = "ResourceNotFoundException"

C8_Witness ==
    /\ pc = "fatal"
    /\ CreateSucceededAt(1)
    /\ ExistsThrewAt(2)

\* C9. Exit status: 0 when the run prints its summary, whatever is in the
\* three lists, 0 when it is aborted at the gate or shows the help, and 1
\* exactly when an existence check threw out of run(); no status while the
\* process runs.
C9_ExitStatus ==
    /\ pc \in {"done", "aborted", "help"} => exitCode = 0
    /\ (HasLine("Done") \/ HasLine("Aborted") \/ HasLine("Usage")) => exitCode = 0
    /\ pc = "fatal" => exitCode = 1
    /\ pc \in {"idle", "confirm", "exists", "prompt", "create"} => exitCode = -1
    /\ exitCode = 1 <=> (\E i \in Positions : ExistsThrewAt(i))
    /\ (\E i \in Positions : CreateFailedAt(i) \/ BlankAt(i)) /\ pc # "fatal"
          => exitCode \in {-1, 0}

C9_Witness ==
    /\ pc = "done"
    /\ exitCode = 0
    /\ CreateFailedAt(1)
    /\ SECRETS[2].required /\ BlankAt(2)

\* C10. No overwrite: a descriptor the store reports as existing is recorded
\* in skippedSecrets, is not prompted for, gets no create call and keeps its
\* stored value; and no step of any run changes a secret that is in a store.
C10_SkippedUntouched ==
    \A i \in Positions :
        ExistsSaidPresent(i) =>
            /\ SECRETS[i].name \in SeqSet(skippedSecrets)
            /\ CallsFor("prompt", i) = {}
            /\ CallsFor("create", i) = {}
            /\ storeAtStart[SECRETS[i].name].present
            /\ store[region][SECRETS[i].name] = storeAtStart[SECRETS[i].name]

C10_StoredIsKept ==
    \A r \in Regions : \A n \in Names :
        store[r][n].present => store'[r][n] = store[r][n]

C10_NoOverwrite == [](C10_SkippedUntouched) /\ [][C10_StoredIsKept]_vars

C10_Witness ==
    /\ pc = "done"
    /\ ExistsSaidPresent(1)
    /\ CreateSucceededAt(2)
    /\ store[region][SECRETS[1].name].value = <<"v">>

\* ---------------------------------------------------------------------------
\* Vocabulary of the output properties

LinesTagged(tag) == { k \in 1..Len(out) : out[k].tag = tag }

\* The key/ARN pairs of the descriptors whose create call succeeded, in
\* catalog order, each with the ARN that call returned
ReturnedArn(i) ==
    calls[CHOOSE k \in CallsFor("create", i) : calls[k].result = "ok"].answer

ExpectedListing ==
    LET F[k \in 0..Len(SECRETS)] ==
            IF k = 0 THEN <<>>
            ELSE IF CreateSucceededAt(k)
                 THEN Append(F[k - 1], <<SECRETS[k].envVarName, ReturnedArn(k)>>)
                 ELSE F[k - 1]
    IN F[Len(SECRETS)]

\* C11. Created-identifier listing: at the summary, when createdSecrets is
\* empty no listing is printed; otherwise exactly one listing is printed and
\* it holds, in catalog order, one key/ARN pair for every descriptor whose
\* create call succeeded, with the ARN that call returned, and no other pair.
C11_CreatedListing ==
    pc = "done" =>
        /\ createdSecrets = <<>> <=> ExpectedListing = <<>>
        /\ IF createdSecrets = <<>>
           THEN LinesTagged("SECRET_ARNS") = {}
           ELSE /\ Cardinality(LinesTagged("SECRET_ARNS")) = 1
                /\ \A k \in LinesTagged("SECRET_ARNS") : out[k].arg = ExpectedListing

C11_Witness ==
    /\ pc = "done"
    /\ CreateSucceededAt(1)
    /\ CreateSucceededAt(2)
    /\ \E k \in LinesTagged("SECRET_ARNS") :
          out[k].arg = << <<"GITHUB_TOKEN", Arn(region, "github-token")>>,
                          <<"GITHUB_ID", Arn(region, "pantry-github-id")>> >>

\* The error a failed create call of position i threw
CreateErrorAt(i) ==
    calls[CHOOSE k \in CallsFor("create", i) :
              calls[k].result \notin {"pending", "ok"}].result

\* Lines that carry the error of the failed create call of position i
ErrorLinesOf(i) ==
    { k \in 1..Len(out) :
        /\ out[k].tag = "ErrorCreating"
        /\ out[k].arg = <<SECRETS[i].name, CreateErrorAt(i)>> }

\* Lines printed while the loop works on a position after i
LaterWorkLines(i) ==
    { k \in 1..Len(out) :
        /\ out[k].tag = "Secret"
        /\ \E j \in Positions : j > i /\ out[k].arg = <<SECRETS[j].name>> }

\* C12 as stated: the error of a failed create call is kept for the summary
\* and printed there, not between the descriptors of the loop.
C12_DeferredAsStated ==
    pc = "done" =>
        \A i \in Positions :
            CreateFailedAt(i) =>
                /\ \E k \in ErrorLinesOf(i) :
                      \E m \in LinesTagged("SUMMARY") : m < k
                /\ \A k \in ErrorLinesOf(i) :
                      \A m \in LaterWorkLines(i) : m < k

\* C12, amended. The error of a failed create call is printed at once, before
\* any later descriptor is worked on and before the summary; only the name of
\* the descriptor is kept, and the summary lists it among the failed or
\* missing secrets without the error.
C12_ImmediateErrorNameDeferred ==
    \A i \in Positions :
        CreateFailedAt(i) =>
            /\ Cardinality(ErrorLinesOf(i)) = 1
            /\ \A k \in ErrorLinesOf(i) :
                  /\ \A m \in LaterWorkLines(i) : k < m
                  /\ \A m \in LinesTagged("SUMMARY") : k < m
            /\ SECRETS[i].name \in SeqSet(failedSecrets)
            /\ pc = "done" =>
                  /\ Cardinality(LinesTagged("FailedSecrets")) = 1
                  /\ \A m \in LinesTagged("FailedSecrets") :
                        /\ SECRETS[i].name \in SeqSet(out[m].arg)
                        /\ CreateErrorAt(i) \notin SeqSet(out[m].arg)
                        /\ \A k \in LinesTagged("SUMMARY") : k < m

C12_Witness ==
    /\ pc = "done"
    /\ CreateFailedAt(1)
    /\ CreateSucceededAt(2)
    /\ \E k \in ErrorLinesOf(1) : \E m \in LaterWorkLines(1) : k < m

\* The descriptors that block a deployment: required and given no value, or
\* with a failed create call, in catalog order
Blocking(i) == (SECRETS[i].required /\ BlankAt(i)) \/ CreateFailedAt(i)

ExpectedBlocking ==
    LET F[k \in 0..Len(SECRETS)] ==
            IF k = 0 THEN <<>>
            ELSE IF Blocking(k) THEN Append(F[k - 1], SECRETS[k].name)
                 ELSE F[k - 1]
    IN F[Len(SECRETS)]

\* C13. Blocking list: at the summary the list of failed or missing secrets
\* and the advice to run again are printed exactly when failedSecrets is not
\* empty; the list holds, in catalog order, exactly the descriptors that are
\* required and were given no value or whose create call failed; a descriptor
\* that already existed is in the separate list of skipped secrets and not in
\* this one.
C13_BlockingList ==
    pc = "done" =>
        /\ failedSecrets = ExpectedBlocking
        /\ LinesTagged("FailedSecrets") # {} <=> failedSecrets # <<>>
        /\ LinesTagged("RunAgain") # {} <=> failedSecrets # <<>>
        /\ Cardinality(LinesTagged("FailedSecrets")) <= 1
        /\ \A m \in LinesTagged("FailedSecrets") : out[m].arg = ExpectedBlocking
        /\ \A i \in Positions :
              ExistsSaidPresent(i) =>
                 /\ \A m \in LinesTagged("FailedSecrets") :
                       SECRETS[i].name \notin SeqSet(out[m].arg)
                 /\ \E m \in LinesTagged("SkippedSecrets") :
                       SECRETS[i].name \in SeqSet(out[m].arg)

C13_Witness ==
    /\ pc = "done"
    /\ SECRETS[1].required /\ BlankAt(1)
    /\ CreateFailedAt(2)
    /\ \E m \in LinesTagged("FailedSecrets") :
          out[m].arg = <<"github-token", "pantry-github-id">>

RequiredAllStored ==
    \A i \in Positions : SECRETS[i].required => store[region][SECRETS[i].name].present

PosOf(n) == CHOOSE i \in Positions : SECRETS[i].name = n

\* C15. Strict sequencing: the calls of a run start with the existence check
\* of the first descriptor; only the last call can be pending; a call is
\* followed either by the next call for the same descriptor (check, then
\* prompt, then create) or by the check of the next descriptor of the
\* catalog; no descriptor has two calls of the same kind in a run.
C15_StrictSequencing ==
    /\ calls # <<>> => (calls[1].op = "exists" /\ calls[1].name = SECRETS[1].name)
    /\ \A k \in 1..(Len(calls) - 1) :
          /\ calls[k].result # "pending"
          /\ \/ /\ calls[k + 1].name = calls[k].name
                /\ <<calls[k].op, calls[k + 1].op>>
                      \in { <<"exists", "prompt">>, <<"prompt", "create">> }
             \/ /\ calls[k + 1].op = "exists"
                /\ PosOf(calls[k + 1].name) = PosOf(calls[k].name) + 1
    /\ \A i \in Positions : \A op \in {"exists", "prompt", "create"} :
          Cardinality(CallsFor(op, i)) <= 1
    /\ pc \in {"exists", "prompt", "create"} <=>
          (calls # <<>> /\ calls[Len(calls)].result = "pending")

C15_Witness ==
    /\ pc = "done"
    /\ Len(calls) = 3 * CatalogLen
    /\ CreateFailedAt(1)

\* The value lines of ValueAnswers, trimmed by hand
TrimmedByHand(a) ==
    IF a = <<" ", "v", " ">> THEN <<"v">> ELSE <<>>

\* C16. Create precondition: every create call comes right after the value
\* prompt of the same descriptor, answered with a line that is not empty once
\* trimmed, which comes right after an existence check of that descriptor
\* that said "not found"; the value passed is the trimmed line and the
\* description is the descriptor's; what is stored is that value.  A prompt
\* answered with an empty or whitespace-only line is followed by no create
\* call and nothing is stored.
C16_CreatePrecondition ==
    /\ \A k \in CallsOfOp("create") :
          /\ k >= 3
          /\ calls[k - 2].op = "exists"
          /\ calls[k - 2].name = calls[k].name
          /\ calls[k - 2].result = "ResourceNotFoundException"
          /\ calls[k - 1].op = "prompt"
          /\ calls[k - 1].name = calls[k].name
          /\ calls[k - 1].answer \notin BlankAnswers
          /\ calls[k].value = TrimmedByHand(calls[k - 1].answer)
          /\ calls[k].value # <<>>
          /\ calls[k].description = SecretDescriptions[PosOf(calls[k].name)]
          /\ calls[k].region = region
          /\ calls[k].result = "ok" =>
                store[region][calls[k].name] =
                    Stored(calls[k].value, calls[k].description)
    /\ \A i \in Positions :
          BlankAt(i) =>
              (CallsFor("create", i) = {} /\ ~store[region][SECRETS[i].name].present)

C16_Witness ==
    /\ pc = "done"
    /\ \E k \in CallsFor("prompt", 1) : calls[k].answer = <<" ", "\t">>
    /\ CreateSucceededAt(2)
    /\ store[region][SECRETS[2].name].value = <<"v">>

Running == pc \in {"confirm", "exists", "prompt", "create"}

\* A call that failed: a store call that threw
FailedCalls ==
    { k \in 1..Len(calls) :
        calls[k].op \in {"exists", "create"}
        /\ calls[k].result \notin {"pending", "ok"} }

C17_Bounded ==
    /\ Cardinality(CallsOfOp("exists")) <= Len(SECRETS)
    /\ Cardinality(CallsOfOp("create")) <= Len(SECRETS)
    /\ \A k \in FailedCalls :
          \A m \in 1..Len(calls) :
              (calls[m].op = calls[k].op /\ calls[m].name = calls[k].name) => m = k
    /\ Cardinality({ t \in {"Aborted", "Done", "FATAL ERROR"} : HasLine(t) }) <= 1
    /\ pc = "aborted" <=> HasLine("Aborted")
    /\ pc = "done" <=> HasLine("Done")
    /\ pc = "fatal" <=> HasLine("FATAL ERROR")

\* C17. Termination: when every prompt and every store call is answered, a
\* run that asked its confirmation question reaches one of its three ends:
\* aborted at the gate, summary printed, or fatal error, and only one of
\* them; it issues at most one existence check and one create call per
\* descriptor of the catalog and never repeats a call that failed.
C17_Termination ==
    /\ [](C17_Bounded)
    /\ Running ~> (pc \in {"aborted", "done", "fatal"})

C17_Witness ==
    /\ pc = "done"
    /\ Cardinality(CallsOfOp("exists")) = CatalogLen
    /\ Cardinality(CallsOfOp("create")) = CatalogLen
    /\ CreateFailedAt(2)
    /\ CreateSucceededAt(1)

\* The command lines of ArgvSet that name no region
NoRegionGiven == { <<>>, <<"--region">> }

StoreCalls == { k \in 1..Len(calls) : calls[k].op \in {"exists", "create"} }

\* C18 as stated: a run started without a region checks and creates its
\* secrets in CONFIG.REGION, the region of the stack and of the documented
\* verification command; a run started with --region R uses R for every
\* store call.
C18_RegionAgreement ==
    \A k \in StoreCalls :
        /\ args \in NoRegionGiven => calls[k].region = CONFIG_REGION
        /\ args = <<"--region", "us-east-2">> => calls[k].region = "us-east-2"

\* The half of C18 about an explicit region
C18_ExplicitRegionUsed ==
    \A k \in StoreCalls :
        /\ args = <<"--region", "us-east-2">> => calls[k].region = "us-east-2"
        /\ args \in NoRegionGiven => calls[k].region = DEFAULT_REGION

====
